---- MODULE Spec2Model ----
(***************************************************************************)
(* Model of gsm_reporter.py: the daily-report engine of gsm-auto-report.   *)
(*                                                                         *)
(* The event store (table game_lines) is a sequence of rows appended by    *)
(* the upstream miner.  The marker store is the set of dates D for which   *)
(* a file last_report_<D>.txt exists.  A run of the reporter is one        *)
(* invocation of the script: __main__ picks the mode and                   *)
(* generate_and_send_report (line 717, the definition that accepts the     *)
(* days_ago and check_missing keywords __main__ passes, and that           *)
(* supersedes the older one at line 439) drives it.                        *)
(*                                                                         *)
(* Calendar dates are day numbers.  A timestamp is a number of ticks,      *)
(* TicksPerSec ticks to the second and SecsPerDay seconds to the day, so   *)
(* that sub-second timestamps (the REAL column the miner writes) exist.    *)
(***************************************************************************)
EXTENDS Integers, Sequences, FiniteSets

VARIABLES
    today,      \* the local calendar date of the wall clock
    events,     \* game_lines: sequence of rows, append-only
    markers,    \* dates D whose file last_report_<D>.txt exists
    sentOk,     \* dates of the requests the webhook accepted
    sentFail,   \* dates of the requests that failed
    run,        \* per process: the position and locals of its invocation
    aggOut,     \* last result of a direct get_today_stats call
    streakOut   \* last result of a direct get_activity_streak call

vars == <<today, events, markers, sentOk, sentFail, run, aggOut, streakOut>>

-----------------------------------------------------------------------------
(* Bounds.                                                                 *)

\* last calendar date the clock reaches (the first is 1)
MaxDay == 3
\* rows the store can hold
MaxEvents == 2
\* max_days_back of check_and_send_missing_reports, scaled down from 7
MaxDaysBack == 2
\* seconds in a day, scaled down from 86400
SecsPerDay == 2
\* resolution of a timestamp within one second
TicksPerSec == 2
\* longest line_text
MaxChars == 2
\* rows in the store when a function is called directly
MaxDirectRows == 2
\* last date of an activity history given to the streak function directly
MaxHistDay == 5

Procs == {1, 2}

TicksPerDay == SecsPerDay * TicksPerSec

-----------------------------------------------------------------------------
(* Time.                                                                   *)

\* datetime(y, m, d, 0, 0, 0).timestamp()
DayStart(date) == date * TicksPerDay

\* datetime(y, m, d, 23, 59, 59).timestamp(): the start of the last second
DayEnd(date) == date * TicksPerDay + (SecsPerDay - 1) * TicksPerSec

\* DATE(timestamp, 'unixepoch', 'localtime'), datetime.fromtimestamp(ts).date()
LocalDate(ts) == ts \div TicksPerDay

\* TargetDate with the sign of the offset flipped
TargetDateForward(now, days_ago) == now + days_ago

\* (datetime.now() - timedelta(days=days_ago)).strftime('%Y-%m-%d')
TargetDate(now, days_ago) == now - days_ago

\* the date whose window get_today_stats(days_ago=...) aggregates
WindowDate(ref, days_ago) == ref - days_ago

-----------------------------------------------------------------------------
(* Stats Aggregator: get_today_stats.                                      *)

SetMax(S) == CHOOSE x \in S : \A y \in S : y <= x
SetMin(S) == CHOOSE x \in S : \A y \in S : x <= y

\* the rows matched by WHERE timestamp >= ? AND timestamp <= ?
RowsIn(ev, s, e) ==
    {i \in DOMAIN ev : ev[i].timestamp >= s /\ ev[i].timestamp <= e}

RECURSIVE SumChars(_, _)
\* SUM(LENGTH(line_text)) over the rows idx
SumChars(ev, idx) ==
    IF idx = {} THEN 0
    ELSE LET i == CHOOSE j \in idx : TRUE
         IN  ev[i].chars + SumChars(ev, idx \ {i})

\* NamedRows without the game_name != '' filter
NamedRowsUnfiltered(ev, idx) == idx

\* AND game_name IS NOT NULL AND game_name != ''
NamedRows(ev, idx) == {i \in idx : ev[i].game_name # ""}

\* GROUP BY game_name: one row {name, chars, lines} per game
GameRows(ev, idx) ==
    LET named == NamedRows(ev, idx)
    IN  { [name  |-> g,
           chars |-> SumChars(ev, {i \in named : ev[i].game_name = g}),
           lines |-> Cardinality({i \in named : ev[i].game_name = g})]
          : g \in {ev[i].game_name : i \in named} }

\* ORDER BY total_chars DESC: every order of the rows that is non-increasing
\* in chars (SQL leaves the order of ties open)
GamesLists(rows) ==
    {s \in [1..Cardinality(rows) -> rows] :
        /\ \A r \in rows : \E i \in DOMAIN s : s[i] = r
        /\ \A i \in DOMAIN s : \A j \in DOMAIN s :
              i < j => s[i].chars >= s[j].chars}

RECURSIVE TotalChars(_)
\* total_chars += chars, over games_data
TotalChars(gl) ==
    IF gl = <<>> THEN 0 ELSE Head(gl).chars + TotalChars(Tail(gl))

\* MIN(timestamp), MAX(timestamp) and the truthiness test on both
PlayTime(ev, idx) ==
    IF idx = {} THEN 0
    ELSE LET lo == SetMin({ev[i].timestamp : i \in idx})
             hi == SetMax({ev[i].timestamp : i \in idx})
         IN  IF lo # 0 /\ hi # 0 THEN hi - lo ELSE 0

\* the stats dict of the except branch
ZeroStats ==
    [lines_mined |-> 0, anki_cards_created |-> 0, games_played |-> 0,
     total_lines |-> 0, games_list |-> <<>>, total_chars |-> 0,
     play_time |-> 0]

\* the stats dict of the try branch, for the window of date and one order gl
\* of the games rows
StatsOf(ev, date, gl) ==
    LET idx == RowsIn(ev, DayStart(date), DayEnd(date))
    IN  [lines_mined        |-> Cardinality(idx),
         anki_cards_created |-> Cardinality({i \in idx : ev[i].anki}),
         games_played       |-> Cardinality({ev[i].game_name : i \in idx}),
         total_lines        |-> Len(ev),
         games_list         |-> gl,
         total_chars        |-> TotalChars(gl),
         play_time          |-> PlayTime(ev, idx)]

\* every result get_today_stats(days_ago) can return at reference date ref;
\* dbok = FALSE is a query that raises sqlite3.OperationalError
get_today_stats(ev, ref, days_ago, dbok) ==
    IF ~dbok THEN {ZeroStats}
    ELSE LET date == WindowDate(ref, days_ago)
             idx  == RowsIn(ev, DayStart(date), DayEnd(date))
         IN  {StatsOf(ev, date, gl) : gl \in GamesLists(GameRows(ev, idx))}

-----------------------------------------------------------------------------
(* Streak Calculator: get_activity_streak.                                 *)

\* SELECT DISTINCT DATE(timestamp, 'unixepoch', 'localtime')
ActivityDates(ev) == {LocalDate(ev[i].timestamp) : i \in DOMAIN ev}

RECURSIVE SortDesc(_)
\* ORDER BY activity_date DESC
SortDesc(S) ==
    IF S = {} THEN <<>>
    ELSE LET m == SetMax(S) IN <<m>> \o SortDesc(S \ {m})

RECURSIVE StreakLoopNoBreak(_, _, _)
\* StreakLoop without the break at the first gap
StreakLoopNoBreak(dates, i, streak) ==
    IF i > Len(dates) - 1 THEN streak
    ELSE StreakLoopNoBreak(dates, i + 1,
                        IF dates[i] - dates[i + 1] = 1 THEN streak + 1
                        ELSE streak)

RECURSIVE StreakLoop(_, _, _)
\* for i in range(len(dates) - 1): streak += 1 while the next date is one day
\* earlier, break at the first gap
StreakLoop(dates, i, streak) ==
    IF i > Len(dates) - 1 THEN streak
    ELSE IF dates[i] - dates[i + 1] = 1
         THEN StreakLoop(dates, i + 1, streak + 1)
         ELSE streak

\* dbok = FALSE is a query that raises sqlite3.OperationalError
get_activity_streak(ev, now, dbok) ==
    IF ~dbok THEN 0
    ELSE LET dates == SortDesc(ActivityDates(ev))
         IN  IF dates = <<>> THEN 0
             ELSE IF dates[1] # now /\ dates[1] # now - 1 THEN 0
             ELSE StreakLoop(dates, 1, 1)

-----------------------------------------------------------------------------
(* Report State Store and delivery.                                        *)

\* AlreadySentCatchup looking for a file that is never written
AlreadySentCatchupWrongFile(date, mk) == FALSE

\* os.path.exists(report_file) in check_and_send_missing_reports
AlreadySentCatchup(date, mk) == date \in mk

\* AlreadySentSingle without the force override
AlreadySentSingleNoForce(force, date, mk) == date \in mk

\* not force and os.path.exists(report_file) in generate_and_send_report
AlreadySentSingle(force, date, mk) == ~force /\ date \in mk

\* NoData with the comparisons inverted
NoDataInverted(stats) == stats.total_chars # 0 /\ stats.lines_mined # 0

\* stats['total_chars'] == 0 and stats['lines_mined'] == 0
NoData(stats) == stats.total_chars = 0 /\ stats.lines_mined = 0

\* send_to_discord: True on status 204 or 200; False on any other status and
\* on requests.exceptions.RequestException (status 0 here: timeout, transport)
Statuses == {0, 200, 204, 404}

\* send_to_discord taking every HTTP response for a success
SendAnyResponse(status) == status # 0

\* send_to_discord returning True from every branch
SendAlwaysTrue(status) == TRUE

send_to_discord(status) == status = 204 \/ status = 200

\* the webhook's own verdict on a request: it took the report on 200 or 204
Accepted(status) == status \in {200, 204}

\* save_report_date_with_date, and the open(report_file, 'w') of the catch-up
save_report_date_with_date(mk, date) == mk \cup {date}

-----------------------------------------------------------------------------
(* __main__: the call the command line selects.                            *)

\* gha is GITHUB_ACTIONS == 'true'; the others are the flags of sys.argv
MainCall(gha, force, yesterday, check_missing) ==
    IF gha THEN [mode |-> "single", force |-> TRUE, days_ago |-> 1]
    ELSE IF check_missing
         THEN [mode |-> "catchup", force |-> FALSE, days_ago |-> 1]
    ELSE IF yesterday
         THEN [mode |-> "single", force |-> force, days_ago |-> 1]
    ELSE [mode |-> "single", force |-> force, days_ago |-> 0]

-----------------------------------------------------------------------------
(* Backfill Orchestrator.                                                  *)

IdleRun ==
    [pc |-> "idle", mode |-> "none", force |-> FALSE, argForce |-> FALSE,
     days_ago |-> 0, ref |-> 0, stats |-> ZeroStats, streak |-> 0,
     attempts |-> <<>>, calls |-> <<>>, status |-> 0, premarked |-> {},
     hadData |-> {}, skipped |-> {}, reports_sent |-> 0, exit |-> "none"]

\* date_str of the day the run is handling
DateStr(r) == TargetDate(r.ref, r.days_ago)

\* CatchupDays starting at today
CatchupDaysFromToday == 0..MaxDaysBack

\* range(1, max_days_back + 1)
CatchupDays == 1..MaxDaysBack

\* the locals of the day just handled go out of scope
Forget(r) == [r EXCEPT !.stats = ZeroStats, !.streak = 0, !.status = 0]

\* the run returns (exit tells how)
Return(r, how) == [Forget(r) EXCEPT !.pc = "done", !.exit = how]

\* the for loop goes to its next days_ago, or ends and the function returns
Continue(r) ==
    IF r.days_ago + 1 \in CatchupDays
    THEN [Forget(r) EXCEPT !.pc = "check", !.days_ago = r.days_ago + 1]
    ELSE [Forget(r) EXCEPT !.pc = "done", !.days_ago = r.days_ago + 1,
                           !.exit = "finished"]

\* what follows a day that is not delivered: return, or the next day
Leave(r, how) == IF r.mode = "single" THEN Return(r, how) ELSE Continue(r)

\* the script starts: __main__ selects the call and the reference date is read
Invoke(p) ==
    /\ run[p].pc = "idle"
    /\ \E gha \in BOOLEAN, force \in BOOLEAN, yesterday \in BOOLEAN,
          check_missing \in BOOLEAN :
          LET c == MainCall(gha, force, yesterday, check_missing)
          IN  run' = [run EXCEPT ![p] =
                        [IdleRun EXCEPT !.pc = "check", !.mode = c.mode,
                                        !.force = c.force,
                                        !.argForce = force,
                                        !.days_ago =
                                            IF c.mode = "catchup"
                                            THEN SetMin(CatchupDays)
                                            ELSE c.days_ago,
                                        !.ref = today]]
    /\ UNCHANGED <<today, events, markers, sentOk, sentFail, aggOut, streakOut>>

\* the marker check of the day
CheckMarker(p) ==
    LET r == run[p] IN
    /\ r.pc = "check"
    /\ run' = [run EXCEPT ![p] =
                 IF r.mode = "single"
                 THEN IF AlreadySentSingle(r.force, DateStr(r), markers)
                      THEN Return(r, "already")
                      ELSE [r EXCEPT !.pc = "stats"]
                 ELSE IF AlreadySentCatchup(DateStr(r), markers)
                      THEN Continue([r EXCEPT !.premarked = @ \cup {r.days_ago}])
                      ELSE [r EXCEPT !.pc = "stats"]]
    /\ UNCHANGED <<today, events, markers, sentOk, sentFail, aggOut, streakOut>>

\* stats = self.get_today_stats(days_ago=days_ago) and the no-data test.
\* db = "raise": connect_db or the query raises what get_today_stats does not
\* catch; the call is outside every try of both callers, so the run ends.
Aggregate(p) ==
    LET r == run[p] IN
    /\ r.pc = "stats"
    /\ \E db \in {"ok", "operr", "raise"} :
          IF db = "raise"
          THEN run' = [run EXCEPT ![p] = Return(r, "raised")]
          ELSE \E st \in get_today_stats(events, r.ref, r.days_ago, db = "ok") :
                  run' = [run EXCEPT ![p] =
                            IF NoData(st)
                            THEN Leave([r EXCEPT !.skipped = @ \cup {r.days_ago}],
                                       "nodata")
                            ELSE [r EXCEPT !.pc = "send", !.stats = st,
                                           !.hadData = @ \cup {r.days_ago}]]
    /\ UNCHANGED <<today, events, markers, sentOk, sentFail, aggOut, streakOut>>

\* streak, heatmap, format_report and send_to_discord.
\* pre = TRUE: one of the steps before the request raises.  attempts lists
\* the days whose delivery was started, calls the days whose request was made.
Send(p) ==
    LET r == run[p] IN
    /\ r.pc = "send"
    /\ \E pre \in BOOLEAN, dbok \in BOOLEAN, status \in Statuses :
          LET r1 == [r EXCEPT !.streak = get_activity_streak(events, today, dbok),
                              !.attempts = Append(@, r.days_ago)]
          IN  IF pre
              THEN /\ run' = [run EXCEPT ![p] =
                                IF r.mode = "single" THEN Return(r1, "raised")
                                ELSE Continue(r1)]
                   /\ UNCHANGED <<sentOk, sentFail>>
              ELSE LET r2 == [r1 EXCEPT !.calls = Append(@, r.days_ago),
                                        !.status = status]
                   IN  /\ run' = [run EXCEPT ![p] =
                                    IF send_to_discord(status)
                                    THEN [r2 EXCEPT !.pc = "mark"]
                                    ELSE Leave(r2, "failed")]
                       /\ sentOk' = IF Accepted(status)
                                    THEN sentOk \cup {DateStr(r)} ELSE sentOk
                       /\ sentFail' = IF Accepted(status) THEN sentFail
                                      ELSE sentFail \cup {DateStr(r)}
    /\ UNCHANGED <<today, events, markers, aggOut, streakOut>>

\* the marker of the day is written after send_to_discord returned True
Mark(p) ==
    LET r == run[p] IN
    /\ r.pc = "mark"
    /\ markers' = save_report_date_with_date(markers, DateStr(r))
    /\ run' = [run EXCEPT ![p] =
                 Leave([r EXCEPT !.reports_sent = @ + 1], "sent")]
    /\ UNCHANGED <<today, events, sentOk, sentFail, aggOut, streakOut>>

\* the process exits; nothing of the run is kept but the marker files
Exit(p) ==
    /\ run[p].pc = "done"
    /\ run' = [run EXCEPT ![p] = IdleRun]
    /\ UNCHANGED <<today, events, markers, sentOk, sentFail, aggOut, streakOut>>

-----------------------------------------------------------------------------
(* The environment: the upstream miner and the clock.  The return of a run *)
(* and the exit of its process are one instant: the environment moves      *)
(* before or after it.                                                     *)

NoneExiting == \A p \in Procs : run[p].pc # "done"

Games == {"", "A"}

\* the miner appends a row stamped with the current time
AddEvent ==
    /\ NoneExiting
    /\ Len(events) < MaxEvents
    /\ \E g \in Games, tod \in {0} :
          events' = Append(events,
                           [timestamp |-> DayStart(today) + tod,
                            game_name |-> g, chars |-> 1, anki |-> FALSE])
    /\ UNCHANGED <<today, markers, sentOk, sentFail, run, aggOut, streakOut>>

\* midnight passes
Midnight ==
    /\ NoneExiting
    /\ today < MaxDay
    /\ today' = today + 1
    /\ UNCHANGED <<events, markers, sentOk, sentFail, run, aggOut, streakOut>>

NoCall == [called |-> FALSE]

Init ==
    /\ today = 1
    /\ events = <<>>
    /\ markers = {}
    /\ sentOk = {}
    /\ sentFail = {}
    /\ run = [p \in Procs |-> IdleRun]
    /\ aggOut = NoCall
    /\ streakOut = NoCall

\* one invocation of the script at a time
Next ==
    \/ Invoke(1)
    \/ CheckMarker(1)
    \/ Aggregate(1)
    \/ Send(1)
    \/ Mark(1)
    \/ Exit(1)
    \/ AddEvent
    \/ Midnight

Spec == Init /\ [][Next]_vars

-----------------------------------------------------------------------------
(* The functions called directly, on stores drawn from bounded sets.       *)

\* times of day: midnight, 23:59:59.000, and the last tick of the day
TimesOfDay == {0, (SecsPerDay - 1) * TicksPerSec, TicksPerDay - 1}

DirectRows ==
    [timestamp : {DayStart(d) + t : d \in {1, 2}, t \in TimesOfDay},
     game_name : {"", "A", "B"},
     chars     : {1, MaxChars},
     anki      : BOOLEAN]

InitAgg ==
    /\ today = 2
    /\ events \in UNION {[1..n -> DirectRows] : n \in 0..MaxDirectRows}
    /\ markers = {}
    /\ sentOk = {}
    /\ sentFail = {}
    /\ run = [p \in Procs |-> IdleRun]
    /\ aggOut = NoCall
    /\ streakOut = NoCall

\* stats = get_today_stats(days_ago=days_ago), at reference date today
CallStats ==
    /\ \E days_ago \in 0..2, dbok \in BOOLEAN :
          \E st \in get_today_stats(events, today, days_ago, dbok) :
              aggOut' = [called |-> TRUE, ref |-> today, days_ago |-> days_ago,
                         dbok |-> dbok, stats |-> st]
    /\ UNCHANGED <<today, events, markers, sentOk, sentFail, run, streakOut>>

NextAgg == CallStats

SpecAgg == InitAgg /\ [][NextAgg]_vars

\* one row on each date of the sequence dates, at time of day tod
HistRows(dates, tod) ==
    [i \in DOMAIN dates |->
        [timestamp |-> DayStart(dates[i]) + tod, game_name |-> "A",
         chars |-> 1, anki |-> FALSE]]

InitStreak ==
    /\ today \in 1..(MaxHistDay + 1)
    /\ \E S \in SUBSET (1..MaxHistDay), tod \in TimesOfDay, twice \in BOOLEAN :
          events = IF twice
                   THEN HistRows(SortDesc(S), tod) \o HistRows(SortDesc(S), 0)
                   ELSE HistRows(SortDesc(S), tod)
    /\ markers = {}
    /\ sentOk = {}
    /\ sentFail = {}
    /\ run = [p \in Procs |-> IdleRun]
    /\ aggOut = NoCall
    /\ streakOut = NoCall

\* streak = get_activity_streak(), at date today
CallStreak ==
    /\ \E dbok \in BOOLEAN :
          streakOut' = [called |-> TRUE, now |-> today, dbok |-> dbok,
                        streak |-> get_activity_streak(events, today, dbok)]
    /\ UNCHANGED <<today, events, markers, sentOk, sentFail, run, aggOut>>

NextStreak == CallStreak

SpecStreak == InitStreak /\ [][NextStreak]_vars

-----------------------------------------------------------------------------
(* Claims.                                                                 *)

\* the dates with at least one row, by the local date of each row
ActiveSet == {LocalDate(events[i].timestamp) : i \in DOMAIN events}

\* the length of the run of consecutive dates of S that ends at its maximum
RunLength(S) ==
    LET m == SetMax(S)
    IN  CHOOSE k \in 1..Cardinality(S) :
            /\ \A j \in 0..(k - 1) : (m - j) \in S
            /\ (m - k) \notin S

\* C8: for the set S of active dates and the reference date D, the streak is
\* 0 when S is empty or max(S) is neither D nor D-1, and otherwise the length
\* of the maximal run of consecutive dates of S that starts at max(S).
C8_Streak ==
    (streakOut.called /\ streakOut.dbok) =>
        LET S == ActiveSet
            D == streakOut.now
        IN  streakOut.streak =
                IF S = {} THEN 0
                ELSE IF SetMax(S) # D /\ SetMax(S) # D - 1 THEN 0
                ELSE RunLength(S)

\* a streak of 3 over a history that has older dates behind a gap
C8_Witness ==
    /\ streakOut.called /\ streakOut.dbok
    /\ streakOut.streak = 3
    /\ Cardinality(ActiveSet) > 3

\* the rows whose local calendar date is the date days_ago before ref
RowsOfDate(date) ==
    {i \in DOMAIN events : LocalDate(events[i].timestamp) = date}

\* C9: the window aggregated for days_ago is the whole local calendar date
\* ref - days_ago: every row of that date is counted, the last second
\* included, and no row of another date.
C9_WholeDay ==
    (aggOut.called /\ aggOut.dbok) =>
        aggOut.stats.lines_mined =
            Cardinality(RowsOfDate(aggOut.ref - aggOut.days_ago))

\* the rows of the window the aggregator used
WindowRows ==
    RowsIn(events, DayStart(aggOut.ref - aggOut.days_ago),
                   DayEnd(aggOut.ref - aggOut.days_ago))

\* names of the per_source_breakdown
ListedNames ==
    {aggOut.stats.games_list[i].name : i \in DOMAIN aggOut.stats.games_list}

\* C10 as stated: a row with an empty source_name is counted in event_count
\* and in total_chars and is left out of per_source_breakdown only.
C10_EmptyNameInTotals ==
    (aggOut.called /\ aggOut.dbok) =>
        /\ aggOut.stats.lines_mined = Cardinality(WindowRows)
        /\ aggOut.stats.total_chars = SumChars(events, WindowRows)
        /\ "" \notin ListedNames

\* C10 amended: a row with an empty source_name is counted in event_count,
\* and is left out of per_source_breakdown and of total_chars, which is the
\* sum of the chars of the breakdown.
C10_EmptyNameCounted ==
    (aggOut.called /\ aggOut.dbok) =>
        /\ aggOut.stats.lines_mined = Cardinality(WindowRows)
        /\ aggOut.stats.total_chars =
              SumChars(events, {i \in WindowRows : events[i].game_name # ""})
        /\ ListedNames = {events[i].game_name : i \in WindowRows} \ {""}

\* a window holding a row with an empty name and a row with a name
C10_Witness ==
    /\ aggOut.called /\ aggOut.dbok
    /\ \E i \in WindowRows : events[i].game_name = ""
    /\ \E i \in WindowRows : events[i].game_name # ""

-----------------------------------------------------------------------------
(* Claims about the orchestrator.                                          *)

Range(s) == {s[i] : i \in DOMAIN s}

NoRepeat(s) == \A i \in DOMAIN s : \A j \in DOMAIN s : s[i] = s[j] => i = j

\* process p makes a delivery request in this step
Requests(p) == Len(run'[p].calls) > Len(run[p].calls)

\* process p leaves the marker check of a day in this step
LeavesCheck(p) == run[p].pc = "check" /\ run'[p] # run[p]

\* C1: markers are never removed, and a delivery request of a run without
\* force is for a day that has no marker: once day X is delivered and
\* marked, no later non-forced run requests delivery for X.
C1_AtMostOnce ==
    [][/\ markers \subseteq markers'
       /\ \A p \in Procs :
             (Requests(p) /\ ~run[p].force) => DateStr(run[p]) \notin markers
      ]_vars

\* a non-forced single-day run that found its day delivered and marked, and
\* returned without a request
C1_Witness ==
    /\ run[1].pc = "done" /\ run[1].mode = "single" /\ ~run[1].force
    /\ run[1].exit = "already" /\ run[1].calls = <<>>
    /\ DateStr(run[1]) \in markers \cap sentOk

\* C2: a marker for day X exists only if a delivery request for X was
\* accepted before.
C2_MarkerAfterSuccess == markers \subseteq sentOk

\* a marked day beside a day whose only requests failed, which has no marker
C2_Witness ==
    /\ markers # {}
    /\ \E d \in sentFail : d \notin sentOk /\ d \notin markers

\* C3: a day with no event has no delivery request and no marker.
C3_EmptyDayUntouched ==
    /\ \A d \in markers \cup sentOk \cup sentFail : RowsOfDate(d) # {}
    /\ \A p \in Procs : \A k \in Range(run[p].attempts) :
          RowsOfDate(TargetDate(run[p].ref, k)) # {}

\* a finished catch-up that delivered one day and skipped an empty one, which
\* is still unmarked
C3_Witness ==
    /\ run[1].pc = "done" /\ run[1].mode = "catchup"
    /\ run[1].exit = "finished" /\ run[1].calls # <<>>
    /\ \E k \in run[1].skipped :
          /\ RowsOfDate(TargetDate(run[1].ref, k)) = {}
          /\ TargetDate(run[1].ref, k) \notin markers

\* C4: a failed delivery request leaves the markers as they are, is not
\* repeated in the same run and does not lead to the marker write (a marker
\* is written only by the run whose request was accepted); and a run that
\* checks an unmarked day goes on to aggregate it, so the next run covering
\* the day tries again.
C4_FailureLeavesNoTrace ==
    [][/\ \A p \in Procs :
             (Requests(p) /\ ~Accepted(run'[p].status)) =>
                 /\ markers' = markers
                 /\ run'[p].pc \notin {"send", "mark"}
       /\ \A p \in Procs :
             Requests(p) => run[p].days_ago \notin Range(run[p].calls)
       /\ markers' # markers =>
             \E p \in Procs : /\ run[p].pc = "mark"
                              /\ Accepted(run[p].status)
                              /\ markers' = markers \cup {DateStr(run[p])}
       /\ \A p \in Procs :
             (LeavesCheck(p) /\ DateStr(run[p]) \notin markers) =>
                 run'[p].pc = "stats"
      ]_vars

\* a non-forced run whose request for a day was accepted after an earlier
\* run's request for that day had failed
C4_Witness ==
    /\ run[1].pc = "mark" /\ ~run[1].force
    /\ DateStr(run[1]) \in sentFail
    /\ DateStr(run[1]) \notin markers

\* C5: a catch-up run attempts delivery at most once per day and only for
\* days_ago in 1..N, so at most N times and never for today; when all of the
\* days 1..N were found unmarked with data, it attempts N times.
C5_CatchupBound ==
    \A p \in Procs :
        run[p].mode = "catchup" =>
            /\ Range(run[p].attempts) \subseteq 1..MaxDaysBack
            /\ NoRepeat(run[p].attempts)
            /\ Len(run[p].attempts) <= MaxDaysBack
            /\ Range(run[p].calls) \subseteq Range(run[p].attempts)
            /\ NoRepeat(run[p].calls)
            /\ (run[p].pc = "done" /\ run[p].hadData = 1..MaxDaysBack) =>
                   Len(run[p].attempts) = MaxDaysBack

\* a catch-up run that made N delivery requests
C5_Witness ==
    /\ run[1].pc = "done" /\ run[1].mode = "catchup"
    /\ Len(run[1].calls) = MaxDaysBack
    /\ run[1].hadData = 1..MaxDaysBack

\* C6: a catch-up run ends normally after its loop has evaluated every day
\* of the lookback window, whatever failed while handling a day.
C6_FailuresIsolated ==
    \A p \in Procs :
        (run[p].mode = "catchup" /\ run[p].pc = "done") =>
            /\ run[p].exit = "finished"
            /\ run[p].days_ago = MaxDaysBack + 1

\* C7: a forced single-day run passes the marker check whatever the markers
\* are; a catch-up run never goes past the marker check of a marked day, and
\* never attempts delivery for one, whatever the --force flag was.
C7_ForceSingleOnly ==
    [][\A p \in Procs :
          /\ (LeavesCheck(p) /\ run[p].mode = "single" /\ run[p].force) =>
                 run'[p].pc = "stats"
          /\ (LeavesCheck(p) /\ run[p].mode = "catchup"
                /\ DateStr(run[p]) \in markers) => run'[p].pc # "stats"
          /\ (Len(run'[p].attempts) > Len(run[p].attempts)
                /\ run[p].mode = "catchup") => DateStr(run[p]) \notin markers
      ]_vars

\* a forced single-day run whose request for an already marked day was
\* accepted
C7_Witness ==
    /\ run[1].pc = "mark" /\ run[1].mode = "single" /\ run[1].force
    /\ DateStr(run[1]) \in markers

\* C11: when the store is unreachable or its schema is absent, the aggregator
\* returns the all-zero stats and raises nothing, so the day is left as a day
\* without activity: no run ends by an exception of the aggregation (a run
\* that raised had reached the delivery of its day).
C11_FailsSoft ==
    \A p \in Procs :
        (run[p].pc = "done" /\ run[p].exit = "raised") =>
            run[p].days_ago \in Range(run[p].attempts)

\* the calendar dates of the delivery requests of run r, in the order made
CallDates(r) == [i \in DOMAIN r.calls |-> TargetDate(r.ref, r.calls[i])]

-----------------------------------------------------------------------------
(* Two invocations of the script at the same time on one host.             *)

\* the store holds a row on some of the last two days, and some of these
\* days were delivered and marked by earlier invocations
InitConc ==
    /\ today = 2
    /\ \E S \in SUBSET {1, 2} :
          /\ events = HistRows(SortDesc(S), 0)
          /\ markers \in SUBSET S
    /\ sentOk = markers
    /\ sentFail = {}
    /\ run = [p \in Procs |-> IdleRun]
    /\ aggOut = NoCall
    /\ streakOut = NoCall

\* each process is one invocation; their steps interleave freely
NextConc ==
    \E p \in Procs :
        \/ Invoke(p)
        \/ CheckMarker(p)
        \/ Aggregate(p)
        \/ Send(p)
        \/ Mark(p)

SpecConc == InitConc /\ [][NextConc]_vars

\* C13: with two invocations interleaved the check, the delivery and the
\* marker write of a day are separate steps: a non-forced invocation is past
\* the marker check of a marked day only when the other invocation delivered
\* and marked that day in the meantime (the witness is the state where both
\* have delivered the same unmarked day).
C13_DuplicateNeedsOverlap ==
    \A q \in Procs :
        (/\ ~run[q].force
         /\ run[q].pc \in {"stats", "send", "mark"}
         /\ DateStr(run[q]) \in markers) =>
            \E p \in Procs \ {q} :
                /\ DateStr(run[q]) \in Range(CallDates(run[p]))
                /\ run[p].reports_sent > 0

\* both invocations, neither forced, found no marker for the same day and
\* the delivery request of each was accepted
C13_Witness ==
    /\ run[1].pc = "mark" /\ run[2].pc = "mark"
    /\ ~run[1].force /\ ~run[2].force
    /\ DateStr(run[1]) = DateStr(run[2])
    /\ DateStr(run[1]) \notin markers
    /\ Accepted(run[1].status) /\ Accepted(run[2].status)

====
